---- MODULE Spec2Model ----
(***************************************************************************)
(* A model of mockall_derive's mock! code generator (mock.rs): the         *)
(* signature classifier method_types, the method pair generator            *)
(* gen_mock_method, the structure generator gen_struct, the trait block    *)
(* lowerer mock_trait_methods and the driver Mock::gen, together with the  *)
(* run-time behaviour of the code generated for static methods (a          *)
(* lazy_static std::sync::Mutex per static method).                        *)
(*                                                                         *)
(* Identifiers are strings and format!() is string concatenation, so that  *)
(* two generated names are equal in the model exactly when the generated   *)
(* identifiers are equal.  Token streams are records and sequences of      *)
(* records.                                                                *)
(***************************************************************************)
EXTENDS Naturals, Sequences, FiniteSets, TLC

VARIABLES
    sig,        \* SpecMethod: the syn::MethodSig handed to gen_mock_method
    sub,        \* SpecMethod: the `sub` argument (<<>> = None, <<t>> = Some(t))
    types,      \* SpecMethod: the MethodTypes computed for sig
    pair,       \* SpecMethod: the (mock method, expect method) pair generated
    mpc,        \* SpecMethod: position in gen_mock_method
    mock,       \* Spec: the parsed Mock
    output,     \* Spec: the items generated so far (Mock::gen's `output`)
    pc,         \* Spec: position in Mock::gen
    idx,        \* Spec: index of the trait the current loop of Mock::gen is at
    diag,       \* Spec: the diagnostic generation stopped with, "" if none
    holder,     \* SpecRun: per static, the thread that holds its mutex (0 = free)
    poisoned,   \* SpecRun: per static, whether its mutex is poisoned
    store,      \* SpecRun: per static, the number of expectations configured
    thr         \* SpecRun: per thread, where it is in the generated code

methodVars == <<sig, sub, types, pair, mpc>>
genVars == <<mock, output, pc, idx, diag>>
runVars == <<holder, poisoned, store, thr>>
vars == <<sig, sub, types, pair, mpc, mock, output, pc, idx, diag,
          holder, poisoned, store, thr>>

(***************************************************************************)
(* Bounds                                                                  *)
(***************************************************************************)
\* captured or ignored arguments of a signature tried in SpecMethod
MaxArgs == 2
\* methods of a mock specification, over all its blocks
MaxMethods == 2
\* trait blocks of a mock specification
MaxTraits == 2
\* items of the trait block of a mock specification with generics
MaxItems == 2
\* threads that run the generated code
NumThreads == 2
\* expectations configured for one static method
MaxExpectations == 1

(***************************************************************************)
(* syn::Type, syn::ReturnType, syn::FnArg, syn::GenericParam               *)
(***************************************************************************)
Ty(k, name, lt, mut, args) ==
    [k |-> k, name |-> name, lt |-> lt, mut |-> mut, args |-> args]

\* syn::Type::Path, e.g. u32 or Option<u32>
TypePath(name, args) == Ty("Path", name, "", FALSE, args)

\* syn::Type::Reference; lt = "" is an elided lifetime (r.lifetime == None)
TypeReference(lt, mut, elem) == Ty("Reference", "", lt, mut, <<elem>>)

\* syn::Type::Tuple
TypeTuple(elems) == Ty("Tuple", "", "", FALSE, elems)

\* syn::ReturnType::Default
ReturnDefault == Ty("Default", "", "", FALSE, <<>>)

FnArg(k, mut, pat, ty) == [k |-> k, mut |-> mut, pat |-> pat, ty |-> ty]

SelfRef(mut) == FnArg("SelfRef", mut, "self", ReturnDefault)
SelfValue == FnArg("SelfValue", FALSE, "self", ReturnDefault)
Captured(pat, ty) == FnArg("Captured", FALSE, pat, ty)
\* syn::FnArg::Ignored: a parameter with a type and no pattern, `fn f(u32)`
Ignored(ty) == FnArg("Ignored", FALSE, "", ty)

GenericParam(k, ident, bounds) == [k |-> k, ident |-> ident, bounds |-> bounds]

MethodSig(ident, generics, inputs, ret, variadic) ==
    [ident |-> ident, generics |-> generics, inputs |-> inputs,
     output |-> ret, variadic |-> variadic]

(***************************************************************************)
(* Sequence helpers                                                        *)
(***************************************************************************)
RECURSIVE SeqsUpTo(_, _)
SeqsUpTo(S, n) ==
    IF n = 0 THEN {<<>>}
    ELSE LET shorter == SeqsUpTo(S, n - 1)
         IN  shorter \cup {Append(s, x) : s \in {t \in shorter : Len(t) = n - 1}, x \in S}

RECURSIVE MapSeq(_, _)
MapSeq(Op(_), s) ==
    IF s = <<>> THEN <<>> ELSE <<Op(Head(s))>> \o MapSeq(Op, Tail(s))

(***************************************************************************)
(* compile_error and gen_mock_ident live in the crate root, which is not   *)
(* part of the sources at hand.  compile_error halts generation with the   *)
(* diagnostic (no output is produced); gen_mock_ident prefixes "Mock".     *)
(***************************************************************************)
compile_error(msg) == msg

gen_mock_ident(ident) == "Mock" \o ident

NoError == ""

(***************************************************************************)
(* method_types                                                            *)
(***************************************************************************)
IsReceiver(fn_arg) == fn_arg.k \in {"SelfRef", "SelfValue"}

\* is_static_of with a by-value receiver not clearing is_static
is_static_of_ref_only(inputs) == \A i \in 1..Len(inputs) : inputs[i].k # "SelfRef"

\* the loop over sig.decl.inputs: is_static starts true, a receiver clears it
is_static_of(inputs) == \A i \in 1..Len(inputs) : ~IsReceiver(inputs[i])

\* the loop over sig.decl.inputs: the types of the captured arguments, in order
elems_of(inputs) ==
    LET captured == SelectSeq(inputs, LAMBDA a : a.k = "Captured")
        ty(a) == a.ty
    IN  MapSeq(ty, captured)

\* the loop over sig.decl.inputs: the first argument that is neither captured
\* nor a receiver is a compile error
inputs_error(inputs) ==
    IF \E i \in 1..Len(inputs) : inputs[i].k \notin {"Captured", "SelfRef", "SelfValue"}
    THEN compile_error("Should be unreachable for normal Rust code")
    ELSE NoError

\* lifetime_error with the check left out
lifetime_error_none(r) == NoError

\* the check of a returned reference's lifetime
lifetime_error(r) ==
    IF r.lt # "" /\ r.lt # "static"
    THEN compile_error("Non-'static non-'self lifetimes are not yet supported")
    ELSE NoError

\* output_match with a mutable reference handled like a shared one
output_match_shared(ret) ==
    IF ret.k = "Default"
    THEN [output_type |-> TypeTuple(<<>>), partial_ex |-> "Expectation",
          call |-> "call", error |-> NoError]
    ELSE IF ret.k = "Reference"
    THEN [output_type |-> ret.args[1], partial_ex |-> "RefExpectation",
          call |-> "call", error |-> lifetime_error(ret)]
    ELSE [output_type |-> ret, partial_ex |-> "Expectation",
          call |-> "call", error |-> NoError]

\* match &sig.decl.output: (output_type, partial_ex, call, error)
output_match(ret) ==
    IF ret.k = "Default"
    THEN [output_type |-> TypeTuple(<<>>), partial_ex |-> "Expectation",
          call |-> "call", error |-> NoError]
    ELSE IF ret.k = "Reference"
    THEN IF ret.mut
         THEN [output_type |-> ret.args[1], partial_ex |-> "RefMutExpectation",
               call |-> "call_mut", error |-> lifetime_error(ret)]
         ELSE [output_type |-> ret.args[1], partial_ex |-> "RefExpectation",
               call |-> "call", error |-> lifetime_error(ret)]
    ELSE [output_type |-> ret, partial_ex |-> "Expectation",
          call |-> "call", error |-> NoError]

\* the first compile error of method_types: the arguments are looked at
\* before the return type
first_error(e1, e2) == IF e1 # NoError THEN e1 ELSE e2

\* call_turbofish: the type arguments <input_type, output_type> of a generic
\* method, nothing otherwise
call_turbofish_of(is_generic, input_type, output_type) ==
    IF is_generic THEN <<input_type, output_type>> ELSE <<>>

\* expect_obj: the type of the expectation object stored for the method
expect_obj_of(is_generic, partial_ex, input_type, output_type) ==
    IF is_generic
    THEN TypePath("::mockall::" \o "Generic" \o partial_ex \o "s", <<>>)
    ELSE TypePath("::mockall::" \o partial_ex \o "s", <<input_type, output_type>>)

\* the MethodTypes built from the parts method_types computes
MethodTypesOf(is_static, is_generic, input_type, m, error) ==
    [error |-> error,
     is_static |-> is_static,
     input_type |-> input_type,
     output_type |-> m.output_type,
     expect_obj |-> expect_obj_of(is_generic, m.partial_ex, input_type, m.output_type),
     expectation |-> TypePath("::mockall::" \o m.partial_ex, <<>>),
     call |-> m.call,
     call_turbofish |-> call_turbofish_of(is_generic, input_type, m.output_type)]

method_types(s) ==
    MethodTypesOf(is_static_of(s.inputs),
                  s.generics # <<>>,
                  TypeTuple(elems_of(s.inputs)),
                  output_match(s.output),
                  first_error(inputs_error(s.inputs), output_match(s.output).error))

\* static_name without the trait's name
static_name_unqualified(mock_ident, sub_name, ident) ==
    mock_ident \o "_" \o ident \o "_expectation"

(***************************************************************************)
(* gen_mock_method                                                         *)
(***************************************************************************)
\* the name of a static method's process-wide expectation object
static_name(mock_ident, sub_name, ident) ==
    mock_ident \o "_" \o sub_name \o ident \o "_expectation"

\* sub_name: "<sub>_" for a trait method, "" otherwise
sub_name_of(sb) == IF sb # <<>> THEN sb[1] \o "_" ELSE ""

\* expect_obj_name: the path of the expectation object in the generated code
expect_obj_name(mock_ident, s, sb, is_static) ==
    IF is_static
    THEN <<static_name(mock_ident, sub_name_of(sb), s.ident)>>
    ELSE IF sb # <<>>
    THEN <<"self", sb[1] \o "_expectations", s.ident>>
    ELSE <<"self", s.ident>>

\* the loop over sig.decl.inputs that collects the argument patterns
args_of(inputs) ==
    LET captured == SelectSeq(inputs, LAMBDA a : a.k = "Captured")
        pat(a) == a.pat
    IN  MapSeq(pat, captured)

Body(target, lock, call, turbofish, args) ==
    [target |-> target, lock |-> lock, call |-> call,
     turbofish |-> turbofish, args |-> args]

\* mock_body_of with the static method's call made without the lock
mock_body_unlocked(is_static, target, meth_types, args) ==
    IF is_static
    THEN Body(target, FALSE, "call", <<>>, args)
    ELSE Body(target, FALSE, meth_types.call, meth_types.call_turbofish, args)

\* the body of the mock method
mock_body_of(is_static, target, meth_types, args) ==
    IF is_static
    THEN Body(target, TRUE, "call", <<>>, args)
    ELSE Body(target, FALSE, meth_types.call, meth_types.call_turbofish, args)

GuardLifetime == GenericParam("Lifetime", "'guard", <<>>)

\* the expectation method
expect_method_of(mock_ident, s, sb, meth_types, target) ==
    IF meth_types.is_static
    THEN [kind |-> "fn", vis |-> "pub",
          ident |-> "expect_" \o s.ident,
          generics |-> Append(s.generics, GuardLifetime),
          inputs |-> <<>>,
          output |-> TypePath("::mockall::ExpectationGuard",
                        <<Ty("Lifetime", "'guard", "", FALSE, <<>>),
                          meth_types.input_type, meth_types.output_type>>),
          body |-> Body(<<static_name(mock_ident, sub_name_of(sb), s.ident)>>,
                        TRUE, "::mockall::ExpectationGuard::new", <<>>, <<>>)]
    ELSE [kind |-> "fn", vis |-> "pub",
          ident |-> "expect_" \o s.ident,
          generics |-> s.generics,
          inputs |-> <<SelfRef(TRUE)>>,
          output |-> TypeReference("", TRUE,
                        TypePath(meth_types.expectation.name,
                            <<meth_types.input_type, meth_types.output_type>>)),
          body |-> Body(target, FALSE, "expect", meth_types.call_turbofish, <<>>)]

NoMethod ==
    [kind |-> "fn", vis |-> "", ident |-> "", generics |-> <<>>, inputs |-> <<>>,
     output |-> ReturnDefault, body |-> Body(<<>>, FALSE, "", <<>>, <<>>)]

\* the mock method: the signature as declared and the forwarding body
mock_method_of(vis, s, meth_types, target) ==
    [kind |-> "fn", vis |-> vis, ident |-> s.ident, generics |-> s.generics,
     inputs |-> s.inputs, output |-> s.output,
     body |-> mock_body_of(meth_types.is_static, target, meth_types,
                           args_of(s.inputs))]

\* gen_mock_method once meth_types and expect_obj_name are known
method_pair(mock_ident, vis, s, sb, meth_types, target) ==
    IF s.variadic
    THEN [error |-> "MockAll does not yet support variadic functions",
          mock |-> NoMethod, expect |-> NoMethod]
    ELSE IF meth_types.error # NoError
    THEN [error |-> meth_types.error, mock |-> NoMethod, expect |-> NoMethod]
    ELSE [error |-> NoError,
          mock |-> mock_method_of(vis, s, meth_types, target),
          expect |-> expect_method_of(mock_ident, s, sb, meth_types, target)]

\* (mock method, expectation method), or the panic / compile error that
\* stops generation
gen_mock_method(mock_ident, vis, s, sb) ==
    method_pair(mock_ident, vis, s, sb, method_types(s),
                expect_obj_name(mock_ident, s, sb, is_static_of(s.inputs)))

(***************************************************************************)
(* gen_struct                                                              *)
(***************************************************************************)
Field(name, ty) == [name |-> name, ty |-> ty]

\* one generic parameter as it appears in the type generics of
\* split_for_impl(): its name, without bounds
type_generic(param) ==
    IF param.k = "Lifetime"
    THEN Ty("Lifetime", param.ident, "", FALSE, <<>>)
    ELSE TypePath(param.ident, <<>>)

type_generics(generics) == MapSeq(type_generic, generics)

\* the loop over subs: one field per trait
sub_fields(ident, subs) ==
    LET f(sb) == Field(sb.ident \o "_expectations",
                       TypePath(ident \o "_" \o sb.ident, type_generics(sb.generics)))
    IN  MapSeq(f, subs)

\* the loop over methods: one field per method with a receiver
method_fields(methods) ==
    LET inst == SelectSeq(methods, LAMBDA m : ~method_types(m).is_static)
        f(m) == Field(m.ident, method_types(m).expect_obj)
    IN  MapSeq(f, inst)

\* the loop over methods: one lazy static per method without a receiver
method_statics(ident, methods) ==
    LET stat == SelectSeq(methods, LAMBDA m : method_types(m).is_static)
        f(m) == [name |-> ident \o "_" \o m.ident \o "_expectation",
                 ty |-> TypePath("::std::sync::Mutex", <<method_types(m).expect_obj>>),
                 init |-> "::std::sync::Mutex::new(::mockall::Expectations::new())"]
    IN  MapSeq(f, stat)

\* the loop over methods: the first compile error method_types reports
RECURSIVE methods_error(_)
methods_error(methods) ==
    IF methods = <<>> THEN NoError
    ELSE IF method_types(Head(methods)).error # NoError
    THEN method_types(Head(methods)).error
    ELSE methods_error(Tail(methods))

\* phantom_field with the type-shaped marker for every kind of parameter
phantom_field_type_shaped(param, count) ==
    Field("_t" \o ToString(count),
          TypePath("::std::marker::PhantomData", <<TypePath(param.ident, <<>>)>>))

\* the loop over generics.params: the PhantomData field of parameter number
\* count
phantom_field(param, count) ==
    IF param.k = "Lifetime"
    THEN Field("_t" \o ToString(count),
               TypePath("::std::marker::PhantomData",
                   <<TypeReference(param.ident, FALSE, TypeTuple(<<>>))>>))
    ELSE Field("_t" \o ToString(count),
               TypePath("::std::marker::PhantomData", <<TypePath(param.ident, <<>>)>>))

phantom_fields(generics) ==
    [i \in 1..Len(generics) |-> phantom_field(generics[i], i - 1)]

\* the loop over generics.params: the first compile error
RECURSIVE generics_error(_)
generics_error(generics) ==
    IF generics = <<>> THEN NoError
    ELSE IF Head(generics).k = "Lifetime" /\ Head(generics).bounds # <<>>
    THEN compile_error("#automock does not yet support lifetime bounds on structs")
    ELSE IF Head(generics).k = "Const"
    THEN compile_error("#automock does not yet support generic constants")
    ELSE generics_error(Tail(generics))

\* the struct and, if there are statics, the lazy_static! block
struct_items(error, struct, statics) ==
    IF error # NoError
    THEN [error |-> error, items |-> <<>>]
    ELSE [error |-> NoError,
          items |-> IF statics # <<>>
                    THEN <<struct, [kind |-> "lazy_static", statics |-> statics]>>
                    ELSE <<struct>>]

\* gen_struct once the name of the structure is known
gen_struct_named(vis, ident, generics, subs, methods) ==
    struct_items(first_error(methods_error(methods), generics_error(generics)),
                 [kind |-> "struct", vis |-> vis, ident |-> ident,
                  generics |-> generics,
                  fields |-> sub_fields(ident, subs) \o method_fields(methods)
                                \o phantom_fields(generics)],
                 method_statics(ident, methods))

gen_struct(vis, ident, generics, subs, methods) ==
    gen_struct_named(vis, gen_mock_ident(ident), generics, subs, methods)

(***************************************************************************)
(* mock_trait_methods                                                      *)
(***************************************************************************)
Impl(unsafety, generics, trait, self_ty, body) ==
    [kind |-> "impl", unsafety |-> unsafety, generics |-> generics,
     trait |-> trait, self_ty |-> self_ty, body |-> body]

Bodies(error, mock_body, expect_body) ==
    [error |-> error, mock_body |-> mock_body, expect_body |-> expect_body]

\* method_bodies with both methods put into the trait's impl block
method_bodies_together(p) ==
    IF p.error # NoError THEN Bodies(p.error, <<>>, <<>>)
    ELSE Bodies(NoError, <<p.mock, p.expect>>, <<>>)

\* the mock method goes to mock_body, the expectation method to expect_body
method_bodies(p) ==
    IF p.error # NoError THEN Bodies(p.error, <<>>, <<>>)
    ELSE Bodies(NoError, <<p.mock>>, <<p.expect>>)

\* what one iteration adds to what the later ones add
join_bodies(this, rest) ==
    IF this.error # NoError THEN this
    ELSE IF rest.error # NoError THEN rest
    ELSE Bodies(NoError, this.mock_body \o rest.mock_body,
                this.expect_body \o rest.expect_body)

\* trait_item with the unsupported items skipped instead of rejected
trait_item_lenient(mock_ident, item_ident, it) ==
    IF it.k = "Method"
    THEN method_bodies(gen_mock_method(mock_ident, "", it.sig, <<item_ident>>))
    ELSE IF it.k = "Type" /\ it.generics = <<>> /\ it.default # <<>>
    THEN Bodies(NoError,
                <<[kind |-> "type", ident |-> it.ident, default |-> it.default]>>,
                <<>>)
    ELSE Bodies(NoError, <<>>, <<>>)

\* one iteration of the loop over item.items
trait_item(mock_ident, item_ident, it) ==
    IF it.k = "Const" THEN Bodies(NoError, <<>>, <<>>)
    ELSE IF it.k = "Method"
    THEN method_bodies(gen_mock_method(mock_ident, "", it.sig, <<item_ident>>))
    ELSE IF it.k = "Type"
    THEN IF it.generics # <<>>
         THEN Bodies(compile_error("Mockall does not yet support generic associated types"),
                     <<>>, <<>>)
         ELSE IF it.default # <<>>
         THEN Bodies(NoError,
                     <<[kind |-> "type", ident |-> it.ident, default |-> it.default]>>,
                     <<>>)
         ELSE Bodies(compile_error("Associated types must be made concrete for mocking."),
                     <<>>, <<>>)
    ELSE Bodies(compile_error("This impl item is not yet supported by MockAll"),
                <<>>, <<>>)

\* the loop over item.items
RECURSIVE trait_items(_, _, _)
trait_items(mock_ident, item_ident, items) ==
    IF items = <<>> THEN Bodies(NoError, <<>>, <<>>)
    ELSE join_bodies(trait_item(mock_ident, item_ident, Head(items)),
                     trait_items(mock_ident, item_ident, Tail(items)))

\* merged_g: the generics of the two impl blocks
merged_generics(struct_generics, trait_generics) ==
    IF struct_generics = <<>> THEN trait_generics ELSE struct_generics[1]

\* the impl block of the mock methods and the impl block of the expectation
\* methods
trait_impls(mock_ident, merged_g, item, b) ==
    IF b.error # NoError
    THEN [error |-> b.error, items |-> <<>>]
    ELSE [error |-> NoError,
          items |-> <<Impl(item.unsafety, merged_g,
                           <<TypePath(item.ident, type_generics(item.generics))>>,
                           TypePath(mock_ident, type_generics(merged_g)),
                           b.mock_body),
                      Impl(FALSE, merged_g, <<>>,
                           TypePath(mock_ident, type_generics(merged_g)),
                           b.expect_body)>>]

\* struct_generics is <<>> for None and <<g>> for Some(g)
mock_trait_methods(mock_ident, struct_generics, item) ==
    trait_impls(mock_ident, merged_generics(struct_generics, item.generics), item,
                trait_items(mock_ident, item.ident, item.items))

(***************************************************************************)
(* Mock::gen                                                               *)
(***************************************************************************)
\* subs: (trait_.ident, trait_.generics) of every trait
subs_of(m) ==
    LET f(t) == [ident |-> t.ident, generics |-> t.generics]
    IN  MapSeq(f, m.traits)

\* the methods among a trait's items
trait_methods(trait) ==
    LET meths == SelectSeq(trait.items, LAMBDA it : it.k = "Method")
        f(it) == it.sig
    IN  MapSeq(f, meths)

\* mm and em of one method, followed by those of the later methods
join_methods(p, rest) ==
    IF p.error # NoError THEN [error |-> p.error, items |-> <<>>]
    ELSE IF rest.error # NoError THEN rest
    ELSE [error |-> NoError, items |-> <<p.mock, p.expect>> \o rest.items]

\* the loop over self.methods: mm and em of every method, in order
RECURSIVE free_methods(_, _)
free_methods(mock_ident, methods) ==
    IF methods = <<>> THEN [error |-> NoError, items |-> <<>>]
    ELSE join_methods(gen_mock_method(mock_ident, "pub", Head(methods), <<>>),
                      free_methods(mock_ident, Tail(methods)))

\* impl #ig #mock_struct_name #tg #wc {#mock_body}
mock_impl(mock_ident, generics, b) ==
    IF b.error # NoError THEN b
    ELSE [error |-> NoError,
          items |-> <<Impl(FALSE, generics, <<>>,
                           TypePath(mock_ident, type_generics(generics)), b.items)>>]

(***************************************************************************)
(* The signatures the classifier and the method pair generator are tried   *)
(* on                                                                      *)
(***************************************************************************)
U32 == TypePath("u32", <<>>)
I64 == TypePath("i64", <<>>)
Option(t) == TypePath("Option", <<t>>)

Lifetimes == {"", "static", "a"}

\* what a returned reference may point to
ElemTypes == {U32, TypeReference("a", FALSE, U32), TypeReference("", FALSE, U32)}

ReturnTypes ==
    {ReturnDefault, U32, Option(U32), TypeTuple(<<U32, I64>>)}
    \cup {TypeReference(lt, mut, e) : lt \in Lifetimes, mut \in BOOLEAN, e \in ElemTypes}
    \cup {Option(TypeReference(lt, FALSE, U32)) : lt \in Lifetimes}
    \cup {TypeTuple(<<U32, TypeReference("a", TRUE, U32)>>)}

Receivers == {<<>>, <<SelfRef(FALSE)>>, <<SelfRef(TRUE)>>, <<SelfValue>>}

ArgPool ==
    {Captured("x", U32), Captured("y", I64),
     Captured("r", TypeReference("a", FALSE, U32)), Ignored(U32)}

MethodGenerics == {<<>>, <<GenericParam("Type", "T", <<"'static">>)>>}

Sigs ==
    {MethodSig("foo", g, r \o a, o, FALSE) :
        g \in MethodGenerics, r \in Receivers,
        a \in SeqsUpTo(ArgPool, MaxArgs), o \in ReturnTypes}
    \cup {MethodSig("foo", <<>>, <<Captured("x", U32)>>, o, TRUE) :
            o \in {ReturnDefault, U32}}

Subs == {<<>>, <<"A">>}

(***************************************************************************)
(* The mock specifications generation is tried on                          *)
(***************************************************************************)
TraitItem(k, s, ident, generics, default) ==
    [k |-> k, sig |-> s, ident |-> ident, generics |-> generics, default |-> default]

NoSig == MethodSig("", <<>>, <<>>, ReturnDefault, FALSE)

Method(s) == TraitItem("Method", s, s.ident, <<>>, <<>>)

ItemTrait(ident, generics, unsafety, items) ==
    [ident |-> ident, generics |-> generics, unsafety |-> unsafety, items |-> items]

MockOf(vis, name, generics, methods, traits) ==
    [vis |-> vis, name |-> name, generics |-> generics,
     methods |-> methods, traits |-> traits]

TypeParam(ident) == GenericParam("Type", ident, <<>>)

\* the methods the blocks of a specification are made of
SampleMethods ==
    << \* fn foo(x: u32) -> u64;
       MethodSig("foo", <<>>, <<Captured("x", U32)>>, TypePath("u64", <<>>), FALSE),
       \* fn foo(&self, x: u32, y: i64) -> &u32;
       MethodSig("foo", <<>>, <<SelfRef(FALSE), Captured("x", U32), Captured("y", I64)>>,
                 TypeReference("", FALSE, U32), FALSE),
       \* fn bar<T>(t: T) -> T;
       MethodSig("bar", <<TypeParam("T")>>, <<Captured("t", TypePath("T", <<>>))>>,
                 TypePath("T", <<>>), FALSE),
       \* fn bar<T>(&mut self, t: T) -> &mut u32;
       MethodSig("bar", <<TypeParam("T")>>,
                 <<SelfRef(TRUE), Captured("t", TypePath("T", <<>>))>>,
                 TypeReference("", TRUE, U32), FALSE),
       \* fn A_foo() -> &'static mut u32;
       MethodSig("A_foo", <<>>, <<>>, TypeReference("static", TRUE, U32), FALSE),
       \* fn A_expectations(self);
       MethodSig("A_expectations", <<>>, <<SelfValue>>, ReturnDefault, FALSE),
       \* fn baz(&self) -> &'a u32;
       MethodSig("baz", <<>>, <<SelfRef(FALSE)>>, TypeReference("a", FALSE, U32), FALSE) >>

TraitNames == {"A", "B", "C"}

\* sequences of distinct trait names
TraitSeqs ==
    {ts \in SeqsUpTo(TraitNames, MaxTraits) :
        \A i, j \in 1..Len(ts) : i # j => ts[i] # ts[j]}

RECURSIVE SubsetsUpTo(_, _)
SubsetsUpTo(S, n) ==
    IF n = 0 THEN {{}}
    ELSE LET smaller == SubsetsUpTo(S, n - 1)
         IN  smaller \cup {t \cup {x} : t \in smaller, x \in S}

\* a placement <<i, b>> puts SampleMethods[i] into block b: 0 is the free
\* methods' block, b > 0 the b-th trait block.  The methods of one block have
\* different names.
Placements(nblocks) ==
    {pl \in SubsetsUpTo((1..Len(SampleMethods)) \X (0..nblocks), MaxMethods) :
        \A p, q \in pl :
            (p # q /\ p[2] = q[2]) => SampleMethods[p[1]].ident # SampleMethods[q[1]].ident}

BlockMethods(pl, b) ==
    LET all == [i \in 1..Len(SampleMethods) |-> i]
        here == SelectSeq(all, LAMBDA i : <<i, b>> \in pl)
        f(i) == SampleMethods[i]
    IN  MapSeq(f, here)

\* an owner without generics, free methods and up to MaxTraits trait blocks
\* of methods
MethodMocks ==
    {MockOf("pub", "Foo", <<>>, BlockMethods(pl[2], 0),
            [b \in 1..Len(pl[1]) |->
                ItemTrait(pl[1][b], <<>>, FALSE,
                          MapSeq(Method, BlockMethods(pl[2], b)))]) :
        pl \in UNION {{<<ts, a>> : a \in Placements(Len(ts))} : ts \in TraitSeqs}}

OwnerGenerics ==
    {<<>>,
     <<TypeParam("T")>>,
     <<GenericParam("Lifetime", "'a", <<>>)>>,
     <<GenericParam("Lifetime", "'a", <<"'b">>)>>,
     <<GenericParam("Const", "N", <<>>)>>,
     <<GenericParam("Type", "T", <<"'static">>), GenericParam("Type", "Z", <<"'static">>)>>}

TraitGenerics == {<<>>, <<TypeParam("T")>>}

ItemPool ==
    {Method(SampleMethods[2]),
     \* type Item = u32;
     TraitItem("Type", NoSig, "Item", <<>>, <<U32>>),
     \* type Item;
     TraitItem("Type", NoSig, "Item", <<>>, <<>>),
     \* type Item<T> = u32;
     TraitItem("Type", NoSig, "Item", <<TypeParam("T")>>, <<U32>>),
     \* const X: u32;
     TraitItem("Const", NoSig, "X", <<>>, <<>>),
     \* a macro invocation
     TraitItem("Macro", NoSig, "", <<>>, <<>>)}

\* the sequences of trait items a trait can hold: no two items of a trait
\* have the same name
ItemSeqs ==
    {items \in SeqsUpTo(ItemPool, MaxItems) :
        \A i, j \in 1..Len(items) :
            (i # j /\ items[i].k # "Macro") => items[i].ident # items[j].ident}

\* an owner with generics and one trait block of items of every kind
ItemMocks ==
    {MockOf("pub", "Foo", g, <<>>, <<ItemTrait("A", tg, u, items)>>) :
        g \in OwnerGenerics, tg \in TraitGenerics, u \in BOOLEAN,
        items \in ItemSeqs}

Mocks == MethodMocks \cup ItemMocks

NoMock == MockOf("", "", <<>>, <<>>, <<>>)

(***************************************************************************)
(* Spec: Mock::gen on one mock specification                               *)
(***************************************************************************)
NoTypes == method_types(NoSig)
NoPair == [error |-> NoError, mock |-> NoMethod, expect |-> NoMethod]

\* no generated code is running
RunIdle ==
    /\ holder = <<>>
    /\ poisoned = <<>>
    /\ store = <<>>
    /\ thr = <<>>

MethodIdle ==
    /\ sig = NoSig
    /\ sub = <<>>
    /\ types = NoTypes
    /\ pair = NoPair
    /\ mpc = "idle"

Init ==
    /\ mock \in Mocks
    /\ output = <<>>
    /\ pc = "gen_struct"
    /\ idx = 0
    /\ diag = NoError
    /\ MethodIdle
    /\ RunIdle

mock_struct_name == gen_mock_ident(mock.name)

\* a panic or compile error stops generation and nothing is produced;
\* otherwise the items are appended to output
Emit(r, next_pc, next_idx) ==
    IF r.error # NoError
    THEN /\ output' = <<>>
         /\ pc' = "failed"
         /\ idx' = 0
         /\ diag' = r.error
    ELSE /\ output' = output \o r.items
         /\ pc' = next_pc
         /\ idx' = next_idx
         /\ diag' = diag

MoreTraits == idx < Len(mock.traits)

\* gen_struct(&self.vis, &self.name, &self.generics, &subs, &self.methods)
GenStruct ==
    /\ pc = "gen_struct"
    /\ Emit(gen_struct(mock.vis, mock.name, mock.generics, subs_of(mock), mock.methods),
            IF mock.traits # <<>> THEN "sub_structs" ELSE "methods", 1)
    /\ UNCHANGED <<mock, methodVars, runVars>>

\* one iteration of the loop that generates the sub structures
GenSubStruct ==
    /\ pc = "sub_structs"
    /\ Emit(gen_struct("", mock.name \o "_" \o mock.traits[idx].ident,
                       mock.traits[idx].generics, <<>>,
                       trait_methods(mock.traits[idx])),
            IF MoreTraits THEN "sub_structs" ELSE "methods",
            IF MoreTraits THEN idx + 1 ELSE 1)
    /\ UNCHANGED <<mock, methodVars, runVars>>

\* the loop over self.methods and the impl block of the mock structure
GenMethods ==
    /\ pc = "methods"
    /\ Emit(mock_impl(mock_struct_name, mock.generics,
                      free_methods(mock_struct_name, mock.methods)),
            IF mock.traits # <<>> THEN "trait_methods" ELSE "done", 1)
    /\ UNCHANGED <<mock, methodVars, runVars>>

\* one iteration of the loop over self.traits:
\* mock_trait_methods(&mock_struct_name, Some(&generics), &trait_)
MockTraitMethods ==
    /\ pc = "trait_methods"
    /\ Emit(mock_trait_methods(mock_struct_name, <<mock.generics>>, mock.traits[idx]),
            IF MoreTraits THEN "trait_methods" ELSE "done",
            IF MoreTraits THEN idx + 1 ELSE 0)
    /\ UNCHANGED <<mock, methodVars, runVars>>

Next == GenStruct \/ GenSubStruct \/ GenMethods \/ MockTraitMethods

Spec == Init /\ [][Next]_vars

(***************************************************************************)
(* SpecMethod: one signature through method_types and gen_mock_method      *)
(***************************************************************************)
GenIdle ==
    /\ mock = NoMock
    /\ output = <<>>
    /\ pc = "idle"
    /\ idx = 0
    /\ diag = NoError

InitMethod ==
    /\ sig \in Sigs
    /\ sub \in Subs
    /\ types = NoTypes
    /\ pair = NoPair
    /\ mpc = "start"
    /\ GenIdle
    /\ RunIdle

\* let meth_types = method_types(sig)
MethodTypes ==
    /\ mpc = "start"
    /\ types' = method_types(sig)
    /\ mpc' = "classified"
    /\ UNCHANGED <<sig, sub, pair, genVars, runVars>>

\* gen_mock_method(&mock_struct_name, None, &vis, &sig, sub)
GenMockMethod ==
    /\ mpc = "classified"
    /\ pair' = gen_mock_method(gen_mock_ident("Foo"), "pub", sig, sub)
    /\ mpc' = IF gen_mock_method(gen_mock_ident("Foo"), "pub", sig, sub).error = NoError
              THEN "generated" ELSE "failed"
    /\ UNCHANGED <<sig, sub, types, genVars, runVars>>

NextMethod == MethodTypes \/ GenMockMethod

SpecMethod == InitMethod /\ [][NextMethod]_vars

(***************************************************************************)
(* Properties of the classification and of the method pair (SpecMethod)    *)
(***************************************************************************)
ExpectationKinds == {"Expectation", "RefExpectation", "RefMutExpectation"}

\* the classification chose kind k, call selector c and output type out
Classified(k, c, out) ==
    /\ types.expectation.name = "::mockall::" \o k
    /\ types.expect_obj.name \in {"::mockall::" \o k \o "s",
                                  "::mockall::Generic" \o k \o "s"}
    /\ types.call = c
    /\ types.output_type = out

\* C1: the classification follows the shape of the declared return type: no
\* return type gives Expectation / call / (); a type that is no reference
\* gives Expectation / call / the type; &T with an elided or 'static lifetime
\* gives RefExpectation / call / T; &mut T gives RefMutExpectation / call_mut
\* / T.  Exactly one kind is chosen, and exactly one reference level is
\* stripped: wrapping the output type in the declared reference gives the
\* declared return type back.
C1_ReturnShape ==
    (mpc # "start" /\ types.error = NoError) =>
        /\ sig.output.k = "Default" =>
                Classified("Expectation", "call", TypeTuple(<<>>))
        /\ sig.output.k \notin {"Default", "Reference"} =>
                Classified("Expectation", "call", sig.output)
        /\ (sig.output.k = "Reference" /\ ~sig.output.mut
                /\ sig.output.lt \in {"", "static"}) =>
                Classified("RefExpectation", "call", sig.output.args[1])
        /\ (sig.output.k = "Reference" /\ sig.output.mut
                /\ sig.output.lt \in {"", "static"}) =>
                Classified("RefMutExpectation", "call_mut", sig.output.args[1])
        /\ Cardinality({k \in ExpectationKinds :
                types.expectation.name = "::mockall::" \o k}) = 1
        /\ sig.output.k = "Reference" =>
                /\ sig.output.lt \in {"", "static"}
                /\ TypeReference(sig.output.lt, sig.output.mut, types.output_type)
                      = sig.output

\* a signature returning &'static mut u32 has been classified
C1_Witness ==
    /\ mpc = "classified"
    /\ sig.output = TypeReference("static", TRUE, U32)
    /\ types.error = NoError
    /\ types.call = "call_mut"
    /\ types.output_type = U32

\* C3: the forwarding body of every method, static or not, invokes the
\* storage with the call selector of the method's classification.
C3_CallSelector ==
    mpc = "generated" => pair.mock.body.call = types.call

\* C4: a method with own generic parameters gets the type arguments
\* (input_type, output_type) on the storage call of the forwarding body and
\* of the expectation body, and its storage is the type-erased container; a
\* method without own generic parameters gets no type arguments and a
\* storage parameterized by (input_type, output_type).
C4_TypeArguments ==
    mpc = "generated" =>
        IF sig.generics # <<>>
        THEN /\ pair.mock.body.turbofish = <<types.input_type, types.output_type>>
             /\ pair.expect.body.turbofish = <<types.input_type, types.output_type>>
             /\ types.expect_obj.args = <<>>
        ELSE /\ pair.mock.body.turbofish = <<>>
             /\ pair.expect.body.turbofish = <<>>
             /\ types.expect_obj.args = <<types.input_type, types.output_type>>

\* a reference with an explicit lifetime other than 'static occurs somewhere
\* in the type
RECURSIVE HasNamedLifetime(_)
HasNamedLifetime(ty) ==
    \/ (ty.k = "Reference" /\ ty.lt \notin {"", "static"})
    \/ \E i \in 1..Len(ty.args) : HasNamedLifetime(ty.args[i])

\* C9: a return type that contains, at any position, a reference with an
\* explicit lifetime other than 'static is rejected.
C9_EveryReferenceChecked ==
    (mpc # "start" /\ HasNamedLifetime(sig.output)) => types.error # NoError

(***************************************************************************)
(* Properties of the generated items (Spec)                                *)
(***************************************************************************)
RECURSIVE Flatten(_)
Flatten(ss) == IF ss = <<>> THEN <<>> ELSE Head(ss) \o Flatten(Tail(ss))

ItemsOfKind(k) == SelectSeq(output, LAMBDA it : it.kind = k)

Structs == ItemsOfKind("struct")
Impls == ItemsOfKind("impl")

\* every static declared in a lazy_static! block of the output
Statics ==
    LET statics(it) == it.statics
    IN  Flatten(MapSeq(statics, ItemsOfKind("lazy_static")))

\* the blocks of the specification: 0 is the free methods' block, b > 0 the
\* b-th trait block
Blocks == 0..Len(mock.traits)

MethodsOf(b) == IF b = 0 THEN mock.methods ELSE trait_methods(mock.traits[b])

\* the impl block holding the forwarding methods of block b, and the one
\* holding its expectation methods
ForwardingImpl(b) == IF b = 0 THEN Impls[1] ELSE Impls[2 * b]
ExpectImpl(b) == IF b = 0 THEN Impls[1] ELSE Impls[2 * b + 1]

FnsNamed(impl, ident) ==
    SelectSeq(impl.body, LAMBDA f : f.kind = "fn" /\ f.ident = ident)

HasReceiver(m) == \E i \in 1..Len(m.inputs) : m.inputs[i].k \in {"SelfRef", "SelfValue"}

NonReceivers(m) ==
    SelectSeq(m.inputs, LAMBDA a : a.k \notin {"SelfRef", "SelfValue"})

\* the input tuple type an expectation method names in its return type
InputTupleOf(e) ==
    IF e.output.k = "Reference" THEN e.output.args[1].args[1] ELSE e.output.args[2]

\* C2 for method m of block b, with forwarding method f and expectation
\* method e
C2_Method(m, f, e) ==
    /\ f.body.lock = ~HasReceiver(m)
    /\ (Len(f.body.target) = 1) = ~HasReceiver(m)
    /\ (e.inputs = <<>>) = ~HasReceiver(m)
    /\ InputTupleOf(e).k = "Tuple"
    /\ Len(InputTupleOf(e).args) = Len(NonReceivers(m))
    /\ \A i \in 1..Len(NonReceivers(m)) :
            InputTupleOf(e).args[i] = NonReceivers(m)[i].ty
    /\ Len(f.body.args) = Len(InputTupleOf(e).args)
    /\ \A i \in 1..Len(NonReceivers(m)) : f.body.args[i] = NonReceivers(m)[i].pat
    /\ \A i \in 1..Len(f.body.args) : f.body.args[i] # "self"

\* C2: a method is static exactly when its parameter list has no receiver;
\* its input tuple type is the sequence of the types of its parameters other
\* than the receiver, in declaration order; the argument tuple of its
\* forwarding body has the same length and order; and this holds of every
\* method whatever the other methods of the specification are.
C2_ReceiverAndInputs ==
    pc = "done" =>
        \A b \in Blocks : \A j \in 1..Len(MethodsOf(b)) :
            /\ Len(FnsNamed(ForwardingImpl(b), MethodsOf(b)[j].ident)) = 1
            /\ Len(FnsNamed(ExpectImpl(b), "expect_" \o MethodsOf(b)[j].ident)) = 1
            /\ C2_Method(MethodsOf(b)[j],
                         FnsNamed(ForwardingImpl(b), MethodsOf(b)[j].ident)[1],
                         FnsNamed(ExpectImpl(b), "expect_" \o MethodsOf(b)[j].ident)[1])

\* generation is done for a specification with a static free method and a
\* trait method that has a receiver and two more parameters
C2_Witness ==
    /\ pc = "done"
    /\ \E j \in 1..Len(mock.methods) : ~HasReceiver(mock.methods[j])
    /\ \E b \in 1..Len(mock.traits) : \E j \in 1..Len(MethodsOf(b)) :
            HasReceiver(MethodsOf(b)[j]) /\ Len(NonReceivers(MethodsOf(b)[j])) = 2

\* the name C5 gives the static of the method called ident of block b
StaticNameOf(b, ident) ==
    IF b = 0 THEN "Mock" \o mock.name \o "_" \o ident \o "_expectation"
    ELSE "Mock" \o mock.name \o "_" \o mock.traits[b].ident \o "_" \o ident
            \o "_expectation"

InstanceMethods(b) == SelectSeq(MethodsOf(b), HasReceiver)

\* the structure generated for block b
StructOf(b) == Structs[b + 1]

\* C5: a static method adds no field to any structure and declares exactly
\* one static, named Mock<Owner>_<method>_expectation, or
\* Mock<Owner>_<Trait>_<method>_expectation for a trait method; its
\* forwarding method and its expectation method both refer to that name; no
\* body refers to an undeclared static and no static is declared twice.
C5_StaticNames ==
    pc = "done" =>
        /\ Len(StructOf(0).fields)
              = Len(mock.traits) + Len(InstanceMethods(0)) + Len(mock.generics)
        /\ \A b \in 1..Len(mock.traits) :
              Len(StructOf(b).fields)
                = Len(InstanceMethods(b)) + Len(mock.traits[b].generics)
        /\ \A b \in Blocks : \A j \in 1..Len(MethodsOf(b)) :
              ~HasReceiver(MethodsOf(b)[j]) =>
                /\ Cardinality({i \in 1..Len(Statics) :
                        Statics[i].name = StaticNameOf(b, MethodsOf(b)[j].ident)}) = 1
                /\ \A f \in {FnsNamed(ForwardingImpl(b), MethodsOf(b)[j].ident)[1],
                              FnsNamed(ExpectImpl(b),
                                       "expect_" \o MethodsOf(b)[j].ident)[1]} :
                        f.body.target = <<StaticNameOf(b, MethodsOf(b)[j].ident)>>
        /\ \A i \in 1..Len(Impls) : \A j \in 1..Len(Impls[i].body) :
              (Impls[i].body[j].kind = "fn" /\ Impls[i].body[j].body.lock) =>
                \E k \in 1..Len(Statics) :
                    <<Statics[k].name>> = Impls[i].body[j].body.target
        /\ \A i, k \in 1..Len(Statics) : i # k => Statics[i].name # Statics[k].name

\* a method of the specification returns a reference with an explicit
\* lifetime other than 'static
RejectedLifetime(m) ==
    m.output.k = "Reference" /\ m.output.lt \notin {"", "static"}

HasRejectedLifetime ==
    \E b \in Blocks : \E j \in 1..Len(MethodsOf(b)) : RejectedLifetime(MethodsOf(b)[j])

\* C8: when a method's return type is a reference with an explicit lifetime
\* other than 'static, generation ends failed with the unsupported-lifetime
\* diagnostic and with nothing generated, for that method or any other.
C8_LifetimeRejected ==
    (HasRejectedLifetime /\ pc \in {"done", "failed"}) =>
        /\ pc = "failed"
        /\ diag = "Non-'static non-'self lifetimes are not yet supported"
        /\ output = <<>>

\* generation failed on the rejected method of a trait block, after the
\* structure of an owner with a free method had been generated
C8_Witness ==
    /\ pc = "failed"
    /\ mock.methods # <<>>
    /\ ~\E j \in 1..Len(mock.methods) : RejectedLifetime(mock.methods[j])
    /\ HasRejectedLifetime
    /\ output = <<>>

\* the method names of different trait blocks are disjoint
DisjointTraitMethods ==
    \A b, c \in 1..Len(mock.traits) : b # c =>
        \A i \in 1..Len(MethodsOf(b)) : \A j \in 1..Len(MethodsOf(c)) :
            MethodsOf(b)[i].ident # MethodsOf(c)[j].ident

\* C10: for N trait blocks with disjoint method names, the output has
\* exactly N sub-structures Mock<Owner>_<Trait>, the owner structure has
\* exactly N fields <Trait>_expectations, there are exactly N pairs of a
\* trait impl block and an inherent impl block, in the order of the trait
\* blocks, and no two fields of a generated structure have the same name.
C10_TraitBlocks ==
    (pc = "done" /\ DisjointTraitMethods) =>
        /\ Len(Structs) = Len(mock.traits) + 1
        /\ \A b \in 1..Len(mock.traits) :
              StructOf(b).ident = "Mock" \o mock.name \o "_" \o mock.traits[b].ident
        /\ Cardinality({i \in 1..Len(StructOf(0).fields) :
                \E b \in 1..Len(mock.traits) :
                    StructOf(0).fields[i].name = mock.traits[b].ident \o "_expectations"})
              = Len(mock.traits)
        /\ Len(Impls) = 2 * Len(mock.traits) + 1
        /\ \A b \in 1..Len(mock.traits) :
              /\ Impls[2 * b].trait # <<>>
              /\ Impls[2 * b].trait[1].name = mock.traits[b].ident
              /\ Impls[2 * b + 1].trait = <<>>
        /\ \A b \in Blocks : \A i, k \in 1..Len(StructOf(b).fields) :
              i # k => StructOf(b).fields[i].name # StructOf(b).fields[k].name

(***************************************************************************)
(* SpecRun: Mock::gen for a specification with static methods, and then    *)
(* the generated code run by NumThreads threads.  A static forwarding      *)
(* method is NAME.lock().unwrap().call(args); a static expectation method  *)
(* is ExpectationGuard::new(NAME.lock().unwrap()), whose result the caller *)
(* keeps until it drops it.  NAME is a lazy_static std::sync::Mutex: it is *)
(* not reentrant (locking it again from the thread that holds it never     *)
(* returns: it blocks for ever or panics), and a guard dropped by a        *)
(* panicking thread poisons it.                                            *)
(***************************************************************************)
Threads == 1..NumThreads

\* Foo { fn foo(x: u32) -> u64; } trait A { fn foo(x: u32) -> u64; }
RunMock ==
    MockOf("pub", "Foo", <<>>, <<SampleMethods[1]>>,
           <<ItemTrait("A", <<>>, FALSE, <<Method(SampleMethods[1])>>)>>)

IdleThread == [st |-> "idle", target |-> "", locked |-> FALSE, guards |-> {}]

InitRun ==
    /\ mock = RunMock
    /\ output = <<>>
    /\ pc = "gen_struct"
    /\ idx = 0
    /\ diag = NoError
    /\ MethodIdle
    /\ holder = <<>>
    /\ poisoned = <<>>
    /\ store = <<>>
    /\ thr = [t \in Threads |-> IdleThread]

\* the methods of the generated impl blocks
GeneratedFns ==
    LET body(im) == im.body
        fns == Flatten(MapSeq(body, Impls))
    IN  {fns[i] : i \in {j \in 1..Len(fns) : fns[j].kind = "fn"}}

\* the generated static forwarding methods and static expectation methods
StaticForwardingFns ==
    {f \in GeneratedFns : f.body.call \in {"call", "call_mut"} /\ ~HasReceiver(f)}

StaticExpectFns ==
    {f \in GeneratedFns : f.body.call = "::mockall::ExpectationGuard::new"}

StaticNames == {Statics[i].name : i \in 1..Len(Statics)}

\* the generated code is compiled and the process starts: every static is
\* an unlocked, unpoisoned mutex around an empty Expectations
Load ==
    /\ pc = "done"
    /\ pc' = "running"
    /\ holder' = [n \in StaticNames |-> 0]
    /\ poisoned' = [n \in StaticNames |-> FALSE]
    /\ store' = [n \in StaticNames |-> 0]
    /\ UNCHANGED <<thr, mock, output, idx, diag, methodVars>>

\* thread t calls the static forwarding method f
StartCall(t, f) ==
    /\ pc = "running"
    /\ thr[t].st = "idle"
    /\ thr' = [thr EXCEPT ![t] =
                 [st |-> IF f.body.lock THEN "call_lock" ELSE "call_invoke",
                  target |-> f.body.target[1], locked |-> f.body.lock,
                  guards |-> @.guards]]
    /\ UNCHANGED <<holder, poisoned, store, genVars, methodVars>>

\* thread t calls the static expectation method e
StartExpect(t, e) ==
    /\ pc = "running"
    /\ thr[t].st = "idle"
    /\ thr' = [thr EXCEPT ![t] =
                 [st |-> IF e.body.lock THEN "expect_lock" ELSE "idle",
                  target |-> e.body.target[1], locked |-> e.body.lock,
                  guards |-> @.guards]]
    /\ UNCHANGED <<holder, poisoned, store, genVars, methodVars>>

AtLock(t) == thr[t].st \in {"call_lock", "expect_lock"}

\* NAME.lock().unwrap() of thread t returns the guard of a free mutex
Acquire(t) ==
    /\ pc = "running"
    /\ AtLock(t)
    /\ holder[thr[t].target] = 0
    /\ ~poisoned[thr[t].target]
    /\ holder' = [holder EXCEPT ![thr[t].target] = t]
    /\ thr' = [thr EXCEPT ![t] =
                 IF @.st = "call_lock"
                 THEN [@ EXCEPT !.st = "call_invoke"]
                 ELSE [st |-> "idle", target |-> "", locked |-> FALSE,
                       guards |-> @.guards \cup {@.target}]]
    /\ UNCHANGED <<poisoned, store, genVars, methodVars>>

\* Unwind with the mutexes unlocked but not poisoned
Unwind_unpoisoned(t, held) ==
    /\ holder' = [n \in DOMAIN holder |-> IF n \in held THEN 0 ELSE holder[n]]
    /\ poisoned' = poisoned
    /\ thr' = [thr EXCEPT ![t] =
                 [st |-> "panicked", target |-> @.target, locked |-> FALSE,
                  guards |-> {}]]

\* thread t panics: the guards in held are dropped while it unwinds, which
\* unlocks and poisons their mutexes
Unwind(t, held) ==
    /\ holder' = [n \in DOMAIN holder |-> IF n \in held THEN 0 ELSE holder[n]]
    /\ poisoned' = [n \in DOMAIN poisoned |-> poisoned[n] \/ n \in held]
    /\ thr' = [thr EXCEPT ![t] =
                 [st |-> "panicked", target |-> @.target, locked |-> FALSE,
                  guards |-> {}]]

\* NAME.lock() of thread t returns Err for a poisoned mutex and unwrap()
\* panics
AcquirePoisoned(t) ==
    /\ pc = "running"
    /\ AtLock(t)
    /\ holder[thr[t].target] = 0
    /\ poisoned[thr[t].target]
    /\ Unwind(t, thr[t].guards \cup {thr[t].target})
    /\ UNCHANGED <<store, genVars, methodVars>>

\* NAME.lock() of the thread that already holds NAME: it blocks for ever
RelockDeadlock(t) ==
    /\ pc = "running"
    /\ AtLock(t)
    /\ holder[thr[t].target] = t
    /\ thr' = [thr EXCEPT ![t].st = "deadlocked"]
    /\ UNCHANGED <<holder, poisoned, store, genVars, methodVars>>

\* NAME.lock() of the thread that already holds NAME: it panics
RelockPanic(t) ==
    /\ pc = "running"
    /\ AtLock(t)
    /\ holder[thr[t].target] = t
    /\ Unwind(t, thr[t].guards)
    /\ UNCHANGED <<store, genVars, methodVars>>

\* .call(args) finds an expectation and returns; the temporary guard is
\* dropped at the end of the statement
CallReturn(t) ==
    /\ pc = "running"
    /\ thr[t].st = "call_invoke"
    /\ store[thr[t].target] > 0
    /\ holder' = IF thr[t].locked THEN [holder EXCEPT ![thr[t].target] = 0]
                 ELSE holder
    /\ thr' = [thr EXCEPT ![t] =
                 [st |-> "idle", target |-> "", locked |-> FALSE,
                  guards |-> @.guards]]
    /\ UNCHANGED <<poisoned, store, genVars, methodVars>>

\* .call(args) finds no expectation and panics
CallPanic(t) ==
    /\ pc = "running"
    /\ thr[t].st = "call_invoke"
    /\ store[thr[t].target] = 0
    /\ Unwind(t, thr[t].guards \cup
                   (IF thr[t].locked THEN {thr[t].target} ELSE {}))
    /\ UNCHANGED <<store, genVars, methodVars>>

\* thread t adds an expectation through the guard it holds for n
Configure(t, n) ==
    /\ pc = "running"
    /\ thr[t].st = "idle"
    /\ n \in thr[t].guards
    /\ store[n] < MaxExpectations
    /\ store' = [store EXCEPT ![n] = @ + 1]
    /\ UNCHANGED <<holder, poisoned, thr, genVars, methodVars>>

\* thread t drops the guard it holds for n
DropGuard(t, n) ==
    /\ pc = "running"
    /\ thr[t].st = "idle"
    /\ n \in thr[t].guards
    /\ holder' = [holder EXCEPT ![n] = 0]
    /\ thr' = [thr EXCEPT ![t].guards = @ \ {n}]
    /\ UNCHANGED <<poisoned, store, genVars, methodVars>>

ThreadStep(t) ==
    \/ \E f \in StaticForwardingFns : StartCall(t, f)
    \/ \E e \in StaticExpectFns : StartExpect(t, e)
    \/ Acquire(t)
    \/ AcquirePoisoned(t)
    \/ RelockDeadlock(t)
    \/ RelockPanic(t)
    \/ CallReturn(t)
    \/ CallPanic(t)
    \/ \E n \in thr[t].guards : Configure(t, n)
    \/ \E n \in thr[t].guards : DropGuard(t, n)

NextRun == Next \/ Load \/ \E t \in Threads : ThreadStep(t)

SpecRun == InitRun /\ [][NextRun]_vars

\* SpecRun with every thread that can take a step eventually taking one
SpecRunFair ==
    /\ InitRun
    /\ [][NextRun]_vars
    /\ WF_vars(Next \/ Load)
    /\ \A t \in Threads : WF_vars(ThreadStep(t))

\* thread t is inside a forwarding call of static n or holds its guard
Inside(t, n) ==
    \/ thr[t].st = "call_invoke" /\ thr[t].target = n
    \/ n \in thr[t].guards

\* C6: a forwarding call of a static method holds the method's mutex while
\* the stored behaviour is invoked, the guard returned by expect_<method>
\* holds the same mutex for as long as it lives, and at most one thread is
\* inside a forwarding call or holds a guard for the same static method.
C6_MutualExclusion ==
    pc = "running" =>
        \A n \in StaticNames :
            /\ \A t \in Threads : Inside(t, n) => holder[n] = t
            /\ Cardinality({t \in Threads : Inside(t, n)}) <= 1

\* a thread holds the guard of a static method it configured while another
\* thread waits at the lock of that method's forwarding call
C6_Witness ==
    /\ pc = "running"
    /\ \E t, u \in Threads : \E n \in StaticNames :
          /\ t # u
          /\ n \in thr[t].guards
          /\ store[n] > 0
          /\ thr[u].st = "call_lock"
          /\ thr[u].target = n

\* thread t holds the guard of a static method, has configured an
\* expectation through it, and is calling the method's forwarding method
CallsUnderGuard(t) ==
    /\ thr[t].st = "call_lock"
    /\ thr[t].target \in thr[t].guards
    /\ store[thr[t].target] > 0

\* C7: a thread that holds the guard of a static method, has configured
\* expectations through it and calls the static forwarding method while
\* still holding the guard eventually has its call return.
C7_CallUnderGuardReturns ==
    \A t \in Threads : CallsUnderGuard(t) ~> (thr[t].st = "idle")

(***************************************************************************)
(* Properties of the lowering of trait blocks (Spec)                       *)
(***************************************************************************)
\* the names of the methods an impl block defines
FnNames(impl) ==
    {impl.body[i].ident : i \in {j \in 1..Len(impl.body) : impl.body[j].kind = "fn"}}

\* the storage the forwarding method of the method called ident of block b
\* refers to
StorageOf(b, ident) == FnsNamed(ForwardingImpl(b), ident)[1].body.target

\* the method names trait blocks b and c both declare
SharedNames(b, c) ==
    {MethodsOf(b)[i].ident : i \in 1..Len(MethodsOf(b))}
        \cap {MethodsOf(c)[j].ident : j \in 1..Len(MethodsOf(c))}

\* C11: when two trait blocks of an owner each declare a method of the same
\* name, the two methods get distinct storage locations, and the owner's
\* inherent impl blocks do not define two expectation methods of the same
\* name.
C11_NoCollision ==
    pc = "done" =>
        \A b, c \in 1..Len(mock.traits) : b < c =>
            /\ \A n \in SharedNames(b, c) : StorageOf(b, n) # StorageOf(c, n)
            /\ SharedNames(b, c) # {} =>
                  FnNames(ExpectImpl(b)) \cap FnNames(ExpectImpl(c)) = {}

\* the generic parameters the header of an impl block declares
DeclaredParams(impl) == {impl.generics[j].ident : j \in 1..Len(impl.generics)}

\* the generic arguments the header of a trait impl block gives the trait
TraitArgs(impl) == {impl.trait[1].args[i].name : i \in 1..Len(impl.trait[1].args)}

\* the generics C12 gives the impl headers of trait block b
HeaderGenerics(b) ==
    IF mock.generics # <<>> THEN mock.generics ELSE mock.traits[b].generics

\* C12: the impl headers of a trait block use the owner's generics if the
\* owner has any, and otherwise the trait's own generics, so that every
\* generic parameter the header names for the trait is declared by it.
C12_ImplGenerics ==
    pc = "done" =>
        \A b \in 1..Len(mock.traits) :
            /\ ForwardingImpl(b).generics = HeaderGenerics(b)
            /\ ExpectImpl(b).generics = HeaderGenerics(b)
            /\ mock.generics = <<>> =>
                  TraitArgs(ForwardingImpl(b)) \subseteq DeclaredParams(ForwardingImpl(b))

IsExpectFn(f) ==
    f.kind = "fn" /\ f.body.call \in {"expect", "::mockall::ExpectationGuard::new"}

IsForwardingFn(f) == f.kind = "fn" /\ f.body.call \in {"call", "call_mut"}

\* it is an associated-type binding copied from trait block b
IsTypeBindingOf(b, it) ==
    /\ it.kind = "type"
    /\ \E i \in 1..Len(mock.traits[b].items) :
          /\ mock.traits[b].items[i].k = "Type"
          /\ mock.traits[b].items[i].ident = it.ident
          /\ mock.traits[b].items[i].default = it.default

MethodNames(b) == {MethodsOf(b)[i].ident : i \in 1..Len(MethodsOf(b))}

\* C13: the trait impl block of a trait block holds only the trait's
\* forwarding methods and its copied associated-type bindings; every
\* expect_<method> of the trait is in a second, inherent impl block of the
\* owner; no expectation method is in a trait impl block and no forwarding
\* method of a trait is in an inherent impl block.
C13_SeparateBlocks ==
    pc = "done" =>
        /\ \A b \in 1..Len(mock.traits) :
            /\ ForwardingImpl(b).trait # <<>>
            /\ ForwardingImpl(b).trait[1].name = mock.traits[b].ident
            /\ ExpectImpl(b).trait = <<>>
            /\ \A i \in 1..Len(ForwardingImpl(b).body) :
                  \/ /\ IsForwardingFn(ForwardingImpl(b).body[i])
                     /\ ForwardingImpl(b).body[i].ident \in MethodNames(b)
                  \/ IsTypeBindingOf(b, ForwardingImpl(b).body[i])
            /\ \A i \in 1..Len(ExpectImpl(b).body) : IsExpectFn(ExpectImpl(b).body[i])
            /\ \A n \in MethodNames(b) :
                  /\ Len(FnsNamed(ForwardingImpl(b), n)) = 1
                  /\ Len(FnsNamed(ExpectImpl(b), "expect_" \o n)) = 1
        /\ \A k \in 1..Len(Impls) : \A i \in 1..Len(Impls[k].body) :
            /\ (Impls[k].trait # <<>>) => ~IsExpectFn(Impls[k].body[i])
            /\ (Impls[k].trait = <<>> /\ k > 1) => ~IsForwardingFn(Impls[k].body[i])

\* generation is done for a trait block with a method and an associated
\* type binding
C13_Witness ==
    /\ pc = "done"
    /\ \E b \in 1..Len(mock.traits) :
          /\ MethodNames(b) # {}
          /\ \E i \in 1..Len(ForwardingImpl(b).body) :
                IsTypeBindingOf(b, ForwardingImpl(b).body[i])
          /\ ExpectImpl(b).body # <<>>

\* the diagnostic C14 expects for a trait item, "" for an item that is lowered
ItemDiagnostic(it) ==
    IF it.k \in {"Method", "Const"} THEN ""
    ELSE IF it.k = "Type"
    THEN IF it.generics # <<>>
         THEN "Mockall does not yet support generic associated types"
         ELSE IF it.default = <<>>
         THEN "Associated types must be made concrete for mocking."
         ELSE ""
    ELSE "This impl item is not yet supported by MockAll"

RejectedItems(b) ==
    {i \in 1..Len(mock.traits[b].items) : ItemDiagnostic(mock.traits[b].items[i]) # ""}

\* the items of trait block b that put something into its trait impl block
LoweredItems(b) ==
    SelectSeq(mock.traits[b].items, LAMBDA it : it.k \in {"Method", "Type"})

\* what item it of trait block b puts at position i of the trait impl block
LoweredAs(b, it, i) ==
    IF it.k = "Method"
    THEN /\ IsForwardingFn(ForwardingImpl(b).body[i])
         /\ ForwardingImpl(b).body[i].ident = it.sig.ident
         /\ ForwardingImpl(b).body[i].inputs = it.sig.inputs
         /\ Len(FnsNamed(ExpectImpl(b), "expect_" \o it.sig.ident)) = 1
    ELSE ForwardingImpl(b).body[i]
            = [kind |-> "type", ident |-> it.ident, default |-> it.default]

\* the owner's generic parameters are ones gen_struct accepts
OwnerAccepted ==
    \A i \in 1..Len(mock.generics) :
        /\ mock.generics[i].k # "Const"
        /\ mock.generics[i].k = "Lifetime" => mock.generics[i].bounds = <<>>

\* C14: a trait's method item yields one forwarding method and one
\* expectation method; a concrete, non-generic associated type is copied
\* into the forwarding block; an associated constant yields nothing and no
\* diagnostic; an associated type without binding, a generic associated type
\* and any other item are rejected with their diagnostic and nothing is
\* generated.
C14_ItemsByKind ==
    (pc \in {"done", "failed"} /\ OwnerAccepted /\ ~HasRejectedLifetime) =>
        \A b \in 1..Len(mock.traits) :
            IF RejectedItems(b) # {}
            THEN /\ pc = "failed"
                 /\ output = <<>>
                 /\ \E i \in RejectedItems(b) :
                       /\ \A j \in RejectedItems(b) : i <= j
                       /\ diag = ItemDiagnostic(mock.traits[b].items[i])
            ELSE /\ pc = "done"
                 /\ diag = NoError
                 /\ Len(ForwardingImpl(b).body) = Len(LoweredItems(b))
                 /\ \A i \in 1..Len(LoweredItems(b)) : LoweredAs(b, LoweredItems(b)[i], i)
                 /\ Len(ExpectImpl(b).body) = Len(MethodsOf(b))

\* generation failed on an associated type without binding that follows a
\* method of the same trait
C14_Witness ==
    /\ pc = "failed"
    /\ output = <<>>
    /\ diag = "Associated types must be made concrete for mocking."
    /\ \E b \in 1..Len(mock.traits) :
          /\ Len(mock.traits[b].items) = 2
          /\ mock.traits[b].items[1].k = "Method"
          /\ mock.traits[b].items[2].k = "Type"
          /\ mock.traits[b].items[2].default = <<>>

(***************************************************************************)
(* Properties of the marker fields (Spec)                                  *)
(***************************************************************************)
\* the type ty names the generic parameter ident
RECURSIVE Mentions(_, _)
Mentions(ty, ident) ==
    \/ ty.name = ident
    \/ ty.k = "Reference" /\ ty.lt = ident
    \/ \E i \in 1..Len(ty.args) : Mentions(ty.args[i], ident)

IsMarker(f) == f.ty.name = "::std::marker::PhantomData"

\* the marker field of the generic parameter at position i (from 0)
MarkerOf(param, i) ==
    [name |-> "_t" \o ToString(i),
     ty |-> TypePath("::std::marker::PhantomData",
               <<IF param.k = "Lifetime"
                 THEN TypeReference(param.ident, FALSE, TypeTuple(<<>>))
                 ELSE TypePath(param.ident, <<>>)>>)]

HasField(st, f) == \E k \in 1..Len(st.fields) : st.fields[k] = f

\* a stored field of the structure has a type that names the parameter
Constrained(st, param) ==
    \E k \in 1..Len(st.fields) :
        ~IsMarker(st.fields[k]) /\ Mentions(st.fields[k].ty, param.ident)

\* C15: a generated structure has the marker field _t<i> of a generic
\* parameter exactly when no stored field of the structure has a type that
\* names the parameter; the marker is PhantomData<&'a ()> for a lifetime
\* and PhantomData<T> for a type parameter.
C15_MarkerWhenUnconstrained ==
    pc = "done" =>
        \A b \in Blocks : \A i \in 1..Len(StructOf(b).generics) :
            HasField(StructOf(b), MarkerOf(StructOf(b).generics[i], i - 1))
                <=> ~Constrained(StructOf(b), StructOf(b).generics[i])

\* C15 as the code has it: a generated structure has the marker field
\* _t<i> of every generic parameter it declares, whether or not a stored
\* field names the parameter, after its stored fields and in the order of
\* the parameters; the marker is PhantomData<&'a ()> for a lifetime and
\* PhantomData<T> for a type parameter.
C15_MarkerForEveryParameter ==
    pc = "done" =>
        \A b \in Blocks :
            /\ Cardinality({k \in 1..Len(StructOf(b).fields) : IsMarker(StructOf(b).fields[k])})
                  = Len(StructOf(b).generics)
            /\ \A i \in 1..Len(StructOf(b).generics) :
                  StructOf(b).fields[Len(StructOf(b).fields) - Len(StructOf(b).generics) + i]
                      = MarkerOf(StructOf(b).generics[i], i - 1)

\* generation is done for an owner with two type parameters, the first of
\* them named by the type of the field of a trait block, the second by no
\* stored field
C15_Witness ==
    /\ pc = "done"
    /\ Len(StructOf(0).generics) = 2
    /\ Constrained(StructOf(0), StructOf(0).generics[1])
    /\ ~Constrained(StructOf(0), StructOf(0).generics[2])
    /\ HasField(StructOf(0), MarkerOf(StructOf(0).generics[1], 0))

(***************************************************************************)
(* Properties of the running generated code (SpecRun)                      *)
(***************************************************************************)
\* the static methods of the specification, as <<block, name>>
StaticMethods ==
    UNION {{<<b, MethodsOf(b)[j].ident>> :
                j \in {k \in 1..Len(MethodsOf(b)) : ~HasReceiver(MethodsOf(b)[k])}} :
           b \in Blocks}

\* the static the expectation method of the method called ident of block b
\* locks
GuardedBy(b, ident) == FnsNamed(ExpectImpl(b), "expect_" \o ident)[1].body.target

\* thread u waits at lock() for a mutex that no thread is inside of
WaitsForFree(u) ==
    /\ AtLock(u)
    /\ \A t \in Threads : ~Inside(t, thr[u].target)

OwnerNames == {"Foo", "Bar"}

PanicsInCall(t) == thr[t].st = "call_invoke" /\ thr'[t].st = "panicked"

\* thread t is at lock().unwrap() of a poisoned static
AtPoisonedLock(t) == pc = "running" /\ AtLock(t) /\ poisoned[thr[t].target]

\* C17: a panic of the stored behaviour during a static method's forwarding
\* call poisons the method's mutex; a poisoned mutex is never unpoisoned; and
\* a thread at lock().unwrap() of a poisoned mutex is not blocked and its
\* next step is a panic, in a forwarding call and in expect_<method> alike.
C17_PoisonedForEver ==
    [][/\ \A t \in Threads : PanicsInCall(t) => poisoned'[thr[t].target]
       /\ \A n \in DOMAIN poisoned :
             poisoned[n] => (n \in DOMAIN poisoned' /\ poisoned'[n])
       /\ \A t \in Threads : AtPoisonedLock(t) =>
             /\ holder[thr[t].target] = 0
             /\ thr'[t] # thr[t] => thr'[t].st = "panicked"
      ]_vars

\* both threads have panicked on the same static method: one poisoned the
\* mutex, the other panicked at lock().unwrap() afterwards
C17_Witness ==
    /\ pc = "running"
    /\ \E t, u \in Threads :
          /\ t # u
          /\ thr[t].st = "panicked"
          /\ thr[u].st = "panicked"
          /\ thr[t].target = thr[u].target
          /\ poisoned[thr[t].target]

====
